---- MODULE Spec2Model ----
(***************************************************************************)
(* Lambert Azimuthal Equal Area projection (src/projections/laea.cpp):     *)
(* setup, the four transforms (ellipsoidal / spherical, forward / inverse) *)
(* and the destructor.                                                     *)
(*                                                                         *)
(* Numbers.  The program computes in IEEE doubles; the model computes in   *)
(* fixed point with ONE units to 1.0 (angles are radians in the same       *)
(* units).  Every product, quotient and root is rounded to a whole unit,   *)
(* as every double operation is rounded to an ulp.  EPS10 keeps its role:  *)
(* it is small against every angle and length of the projection and large *)
(* against the rounding error of one expression (in the program 1e-10      *)
(* against 1e-16).  The model has no negative zero and no infinities; a    *)
(* NaN result (arcsine outside [-1, 1]) is carried as a flag beside the    *)
(* pair.                                                                   *)
(***************************************************************************)
EXTENDS Integers, Sequences, FiniteSets, TLC

(***************************************************************************)
(* Fixed-point arithmetic                                                  *)
(***************************************************************************)
ONE == 100 * 100

M_HALFPI == 15708
M_PI == 2 * M_HALFPI
M_FORTPI == 7854

EPS10 == 8

\* 1e-15 of line 81: the smallest positive q the polar forward accepts.
Q_MIN == 1

fabs(x) == IF x < 0 THEN -x ELSE x

\* a * b, rounded to the nearest unit (the larger factor is split so that no
\* intermediate product leaves TLC's 32-bit integers)
Mul(a, b) ==
    LET A == IF a < 0 THEN -a ELSE a
        B == IF b < 0 THEN -b ELSE b
        m == IF A >= B
             THEN (A \div ONE) * B + ((A % ONE) * B + ONE \div 2) \div ONE
             ELSE (B \div ONE) * A + ((B % ONE) * A + ONE \div 2) \div ONE
    IN  IF (a < 0) = (b < 0) THEN m ELSE -m

\* a / b, rounded to the nearest unit (b # 0)
Div(a, b) ==
    LET A == IF a < 0 THEN -a ELSE a
        B == IF b < 0 THEN -b ELSE b
        d == (A * ONE + B \div 2) \div B
    IN  IF (a < 0) = (b < 0) THEN d ELSE -d

RECURSIVE Newton(_, _, _)
Newton(n, x, k) ==
    IF k = 0 \/ x = 0 THEN x
    ELSE IF (x + n \div x) \div 2 >= x THEN x
    ELSE Newton(n, (x + n \div x) \div 2, k - 1)

Nearest(n, r) == IF (r + 1) * (r + 1) - n <= n - r * r THEN r + 1 ELSE r

\* the integer nearest to the square root of n
ISqrt(n) == IF n <= 0 THEN 0 ELSE Nearest(n, Newton(n, n, 40))

sqrt(a) == IF a <= 200000 THEN ISqrt(a * ONE) ELSE 100 * ISqrt(a)

hypot(x, y) == ISqrt(x * x + y * y)

\* the Taylor polynomials of sine (about 0) and cosine, in x and x * x
SinPoly(x, x2) ==
    Mul(x, ONE - Mul(x2, ONE - Mul(x2, ONE - Mul(x2, ONE - x2 \div 72) \div 42)
                                \div 20) \div 6)

CosPoly(x2) ==
    ONE - Mul(x2, ONE - Mul(x2, ONE - Mul(x2, ONE - Mul(x2, ONE - x2 \div 90)
                                                \div 56) \div 30) \div 12) \div 2

\* sine on [0, pi/2]
SinTab ==
    [x \in 0..M_HALFPI |->
        IF x <= M_FORTPI THEN SinPoly(x, Mul(x, x))
        ELSE CosPoly(Mul(M_HALFPI - x, M_HALFPI - x))]

\* the angle x reduced to (-pi, pi]
Wrap(x) == IF (x + M_PI) % (2 * M_PI) = 0 THEN M_PI
           ELSE ((x + M_PI) % (2 * M_PI)) - M_PI

SinW(w) ==
    (IF w < 0 THEN -1 ELSE 1)
    * SinTab[IF fabs(w) > M_HALFPI THEN M_PI - fabs(w) ELSE fabs(w)]

CosW(a) == IF a > M_HALFPI THEN -SinTab[a - M_HALFPI] ELSE SinTab[M_HALFPI - a]

sin(x) == SinW(Wrap(x))

\* cos(M_HALFPI) is 0 here; in doubles it is 6e-17, since M_HALFPI is not pi/2
cos(x) == CosW(fabs(Wrap(x)))

AtanPoly(r, r2) ==
    Mul(r, ONE - Mul(r2, ONE \div 3 - Mul(r2, ONE \div 5
                                  - Mul(r2, ONE \div 7 - Mul(r2, ONE \div 9)))))

AtanSeries(r) == AtanPoly(r, Mul(r, r))

\* arctangent on [0, 1]: the series on [0, tan(pi/8)], reflected above it
AtanTab ==
    [t \in 0..ONE |->
        IF t > 4142 THEN M_FORTPI - AtanSeries(Div(ONE - t, ONE + t))
        ELSE AtanSeries(t)]

\* the arctangent of Y / X for Y, X >= 0, not both 0
AtanPos(Y, X) ==
    IF Y <= X THEN AtanTab[Div(Y, X)] ELSE M_HALFPI - AtanTab[Div(X, Y)]

Quadrant(y, x, t) ==
    (IF y < 0 THEN -1 ELSE 1) * (IF x >= 0 THEN t ELSE M_PI - t)

\* atan2(0, 0) is 0; the model has no negative zero (atan2(0, -0.) is pi)
atan2(y, x) ==
    IF x = 0 /\ y = 0 THEN 0 ELSE Quadrant(y, x, AtanPos(fabs(y), fabs(x)))

\* asin is a NaN outside [-1, 1]
IsNaNAsin(v) == v > ONE \/ v < -ONE

AsinTab == [v \in 0..ONE |-> atan2(v, sqrt(ONE - Mul(v, v)))]

asin(v) ==
    IF IsNaNAsin(v) THEN 0
    ELSE IF v < 0 THEN -AsinTab[-v] ELSE AsinTab[v]

(***************************************************************************)
(* Program constants                                                       *)
(***************************************************************************)
N_POLE == 0
S_POLE == 1
EQUIT == 2
OBLIQ == 3

NoError == "0"
PROJ_ERR_OTHER == "PROJ_ERR_OTHER"
PROJ_ERR_INVALID_OP_ILLEGAL_ARG_VALUE == "PROJ_ERR_INVALID_OP_ILLEGAL_ARG_VALUE"
PROJ_ERR_COORD_TRANSFM_OUTSIDE_PROJECTION_DOMAIN ==
    "PROJ_ERR_COORD_TRANSFM_OUTSIDE_PROJECTION_DOMAIN"

(***************************************************************************)
(* The authalic-latitude helper and the default destructor are not part of *)
(* this file.  The helper is modelled to first order in the third          *)
(* flattening n: xi = phi - apa[1] sin 2 phi, its inverse                  *)
(* phi = beta + apa[1] sin 2 beta, and q at the pole from the closed form. *)
(***************************************************************************)
pj_authalic_lat_q(sinphi, es) ==
    Mul(ONE - es,
        Div(sinphi, ONE - Mul(es, Mul(sinphi, sinphi)))
        + sinphi + Mul(es, Mul(sinphi, Mul(sinphi, sinphi))) \div 3)

pj_authalic_lat_compute_coeffs(n) == <<(4 * n) \div 3>>

pj_authalic_lat(phi, sinphi, cosphi, coeffs, es, qp) ==
    phi - Mul(coeffs[1], 2 * Mul(sinphi, cosphi))

pj_authalic_lat_inverse(beta, coeffs, es, qp) ==
    beta + Mul(coeffs[1], sin(2 * beta))

(***************************************************************************)
(* State.  P is the PJ instance the caller passes to setup, Q the          *)
(* pj_laea_data block behind P->opaque, apa the coefficient array behind   *)
(* Q->apa.  Each carries its allocation status in mem.  handle is the      *)
(* pointer the caller holds ("P", or "null" once setup or the destructor   *)
(* returned nullptr), call the last transform call and what it returned,   *)
(* torn the path the last destructor call took.                            *)
(***************************************************************************)
VARIABLES P, Q, apa, errno, handle, apaAllocs, apaFrees, fault, call, torn

vars == <<P, Q, apa, errno, handle, apaAllocs, apaFrees, fault, call, torn>>

\* calloc(1, sizeof(struct pj_laea_data)): every field zero
ZeroQ ==
    [mem |-> "live", sinb1 |-> 0, cosb1 |-> 0, xmf |-> 0, ymf |-> 0, mmf |-> 0,
     qp |-> 0, dd |-> 0, rq |-> 0, apa |-> "null", mode |-> N_POLE]

NoCall ==
    [op |-> "none", model |-> "none", in |-> <<0, 0>>, out |-> <<0, 0>>,
     err |-> FALSE, nan |-> FALSE, rt |-> FALSE, src |-> <<0, 0>>]

St ==
    [P |-> P, Q |-> Q, apa |-> apa, errno |-> errno, allocs |-> apaAllocs,
     frees |-> apaFrees, fault |-> fault]

\* proj_errno_set / the errlev of a destructor: only a nonzero code is stored
proj_errno_set(S, err) == IF err = NoError THEN S ELSE [S EXCEPT !.errno = err]

\* free(ptr) of a block: live becomes freed
FreeBlock(b) == IF b.mem = "live" THEN [b EXCEPT !.mem = "freed"] ELSE b

\* frees P->opaque and P; stores errlev.  A dereference of a block that is
\* not live, or a second free of a block, sets fault.
DefaultDestroy(S1, p) ==
    IF p = "null" THEN S1
    ELSE IF S1.P.mem # "live" THEN [S1 EXCEPT !.fault = TRUE]
    ELSE [S1 EXCEPT
            !.Q = IF S1.P.opaque = "null" THEN @ ELSE FreeBlock(@),
            !.fault = @ \/ (S1.P.opaque # "null" /\ S1.Q.mem # "live"),
            !.P = [@ EXCEPT !.mem = "freed"]]

pj_default_destructor(S, p, errlev) == DefaultDestroy(proj_errno_set(S, errlev), p)

\* a destructor that forgets the coefficient array
FreeApa_Leak(S) == S

\* line 238: free(Q->apa)
FreeApa(S) ==
    IF S.Q.apa = "null" THEN S
    ELSE [S EXCEPT !.apa = FreeBlock(@),
                   !.frees = @ + 1,
                   !.fault = @ \/ S.apa.mem # "live"]

\* lines 231-241
pj_laea_destructor(S, p, errlev) ==
    IF p = "null" THEN S
    ELSE IF S.P.mem # "live" THEN [S EXCEPT !.fault = TRUE]
    ELSE IF S.P.opaque = "null" THEN pj_default_destructor(S, p, errlev)
    ELSE IF S.Q.mem # "live" THEN [S EXCEPT !.fault = TRUE]
    ELSE pj_default_destructor(FreeApa(S), p, errlev)

\* a classification whose comparisons with epsilon are not strict
ClassifyMode_Inclusive(phi0) ==
    IF fabs(fabs(phi0) - M_HALFPI) <= EPS10
    THEN (IF phi0 < 0 THEN S_POLE ELSE N_POLE)
    ELSE IF fabs(fabs(phi0)) <= EPS10 THEN EQUIT
    ELSE OBLIQ

\* lines 258-263
ClassifyMode(phi0) ==
    IF fabs(fabs(phi0) - M_HALFPI) < EPS10
    THEN (IF phi0 < 0 THEN S_POLE ELSE N_POLE)
    ELSE IF fabs(fabs(phi0)) < EPS10 THEN EQUIT
    ELSE OBLIQ

\* lines 288-293
ObliqueDD(q1, rq, sinb1, cosb1, dd) ==
    [q1 EXCEPT !.rq = rq, !.sinb1 = sinb1, !.cosb1 = cosb1, !.dd = dd,
               !.ymf = Div(rq, dd), !.xmf = Mul(rq, dd)]

\* lines 285-291
ObliqueB1(q1, phi0, es, rq, sinphi, b1) ==
    ObliqueDD(q1, rq, sin(b1), cos(b1),
              Div(cos(phi0),
                  Mul(Mul(sqrt(ONE - Mul(Mul(es, sinphi), sinphi)), rq),
                      cos(b1))))

\* lines 273-295, rq = sqrt(.5 * qp)
EllipsoidalMode(q1, phi0, es, coeffs, rq) ==
    IF q1.mode = N_POLE \/ q1.mode = S_POLE THEN [q1 EXCEPT !.dd = ONE]
    ELSE IF q1.mode = EQUIT
    THEN [q1 EXCEPT !.rq = rq, !.dd = Div(ONE, rq), !.xmf = ONE,
                    !.ymf = q1.qp \div 2]
    ELSE ObliqueB1(q1, phi0, es, rq, sin(phi0),
                   pj_authalic_lat(phi0, sin(phi0), cos(phi0), coeffs, es,
                                   q1.qp))

EllipsoidalQ(q1, phi0, es, coeffs) ==
    EllipsoidalMode(q1, phi0, es, coeffs, sqrt(q1.qp \div 2))

\* lines 299-302
SphericalQ(q0, phi0) ==
    IF q0.mode = OBLIQ
    THEN [q0 EXCEPT !.sinb1 = sin(phi0), !.cosb1 = cos(phi0)]
    ELSE q0

\* lines 270-297: Q->apa = coeffs, the mode's constants, the bindings
SetupCoeffs(S3, coeffs) ==
    [S |-> [S3 EXCEPT
              !.apa = [mem |-> "live", c |-> coeffs],
              !.allocs = @ + 1,
              !.Q = EllipsoidalQ([@ EXCEPT !.apa = "apa"], S3.P.phi0, S3.P.es,
                                 coeffs),
              !.P = [@ EXCEPT !.inv = "laea_e_inverse",
                              !.fwd = "laea_e_forward"]],
     ret |-> "P"]

\* lines 270-272
SetupEllipsoidal(S3, coeffsOK) ==
    IF ~coeffsOK
    THEN [S |-> pj_laea_destructor(S3, "P", PROJ_ERR_OTHER), ret |-> "null"]
    ELSE SetupCoeffs(S3, pj_authalic_lat_compute_coeffs(S3.P.n))

\* lines 264-307
SetupModel(S2, coeffsOK) ==
    IF S2.P.es # 0
    THEN SetupEllipsoidal(
             [S2 EXCEPT !.P = [@ EXCEPT !.e = sqrt(S2.P.es)],
                        !.Q = [@ EXCEPT
                                 !.qp = pj_authalic_lat_q(ONE, S2.P.es),
                                 !.mmf = Div(ONE \div 2, ONE - S2.P.es)]],
             coeffsOK)
    ELSE [S |-> [S2 EXCEPT
                   !.Q = SphericalQ(@, S2.P.phi0),
                   !.P = [@ EXCEPT !.inv = "laea_s_inverse",
                                   !.fwd = "laea_s_forward"]],
          ret |-> "P"]

\* a range check without the epsilon
SetupCheck_NoEpsilon(S1, coeffsOK) ==
    IF fabs(S1.P.phi0) > M_HALFPI
    THEN [S |-> pj_laea_destructor(S1, "P",
                                   PROJ_ERR_INVALID_OP_ILLEGAL_ARG_VALUE),
          ret |-> "null"]
    ELSE SetupModel([S1 EXCEPT !.Q = [@ EXCEPT !.mode = ClassifyMode(S1.P.phi0)]],
                    coeffsOK)

\* lines 252-263
SetupCheck(S1, coeffsOK) ==
    IF fabs(S1.P.phi0) > M_HALFPI + EPS10
    THEN [S |-> pj_laea_destructor(S1, "P",
                                   PROJ_ERR_INVALID_OP_ILLEGAL_ARG_VALUE),
          ret |-> "null"]
    ELSE SetupModel([S1 EXCEPT !.Q = [@ EXCEPT !.mode = ClassifyMode(S1.P.phi0)]],
                    coeffsOK)

\* PJ *PJ_PROJECTION(laea), lines 243-308: the state after the call and the
\* pointer returned
PJ_PROJECTION_laea(S, callocOK, coeffsOK) ==
    IF ~callocOK
    THEN [S |-> pj_default_destructor(S, "P", PROJ_ERR_OTHER), ret |-> "null"]
    ELSE SetupCheck([S EXCEPT !.Q = ZeroQ,
                              !.P = [@ EXCEPT !.opaque = "Q",
                                              !.destructor = "pj_laea_destructor"]],
                    coeffsOK)

(***************************************************************************)
(* The transforms.  Each takes the input pair and the state S behind the   *)
(* PJ pointer and returns the pair it returns (out), whether it called     *)
(* proj_errno_set (err), whether the pair holds a NaN (nan: an arcsine or  *)
(* square root outside its domain) and the state it leaves.  A function is *)
(* split where the source computes a value it uses more than once; the     *)
(* value is passed on as a parameter.                                      *)
(***************************************************************************)
Fail(S) == proj_errno_set(S, PROJ_ERR_COORD_TRANSFM_OUTSIDE_PROJECTION_DOMAIN)

Ret(out, err, nan, S) == [out |-> out, err |-> err, nan |-> nan, S |-> S]

Planar(mode) == mode = OBLIQ \/ mode = EQUIT

\* lines 76-78 (eqcon), b = sqrt(2. / b)
laea_e_forward_eqcon(S, y, b, cosb, sinlam, nan) ==
    Ret(<<Mul(Mul(Mul(S.Q.xmf, b), cosb), sinlam), y>>, FALSE, nan, S)

\* lines 81-86, b = sqrt(q)
laea_e_forward_polar(S, q, b, coslam, sinlam) ==
    IF q >= Q_MIN
    THEN Ret(<<Mul(b, sinlam), Mul(coslam, IF S.Q.mode = S_POLE THEN b ELSE -b)>>,
             FALSE, FALSE, S)
    ELSE Ret(<<0, 0>>, FALSE, FALSE, S)

\* lines 67-89, rb = sqrt(2. / b) of the mode
laea_e_forward_switch(S, coslam, sinlam, sinb, cosb, q, rb, nan) ==
    IF S.Q.mode = OBLIQ
    THEN laea_e_forward_eqcon(
             S,
             Mul(Mul(S.Q.ymf, rb),
                 Mul(S.Q.cosb1, sinb) - Mul(Mul(S.Q.sinb1, cosb), coslam)),
             rb, cosb, sinlam, nan)
    ELSE IF S.Q.mode = EQUIT
    THEN laea_e_forward_eqcon(S, Mul(Mul(rb, sinb), S.Q.ymf), rb, cosb, sinlam,
                              nan)
    ELSE laea_e_forward_polar(S, q, sqrt(q), coslam, sinlam)

\* a guard that is skipped in the polar modes
laea_e_forward_guard_PlanarOnly(S, coslam, sinlam, sinb, cosb, q, b) ==
    IF Planar(S.Q.mode) /\ fabs(b) < EPS10
    THEN Ret(<<0, 0>>, TRUE, FALSE, Fail(S))
    ELSE laea_e_forward_switch(
             S, coslam, sinlam, sinb, cosb, q,
             IF S.Q.mode = OBLIQ THEN sqrt(Div(2 * ONE, b))
             ELSE IF S.Q.mode = EQUIT
             THEN sqrt(Div(2 * ONE, ONE + Mul(cosb, coslam)))
             ELSE 0,
             Planar(S.Q.mode) /\ b < 0)

\* lines 62-74
laea_e_forward_guard(S, coslam, sinlam, sinb, cosb, q, b) ==
    IF fabs(b) < EPS10 THEN Ret(<<0, 0>>, TRUE, FALSE, Fail(S))
    ELSE laea_e_forward_switch(
             S, coslam, sinlam, sinb, cosb, q,
             IF S.Q.mode = OBLIQ THEN sqrt(Div(2 * ONE, b))
             ELSE IF S.Q.mode = EQUIT
             THEN sqrt(Div(2 * ONE, ONE + Mul(cosb, coslam)))
             ELSE 0,
             Planar(S.Q.mode) /\ b < 0)

\* lines 46-61
laea_e_forward_b(S, phi, coslam, sinlam, sinb, cosb, q) ==
    laea_e_forward_guard(
        S, coslam, sinlam, sinb, cosb,
        CASE S.Q.mode = N_POLE -> S.Q.qp - q
          [] S.Q.mode = S_POLE -> S.Q.qp + q
          [] OTHER -> q,
        CASE S.Q.mode = OBLIQ ->
               ONE + Mul(S.Q.sinb1, sinb) + Mul(Mul(S.Q.cosb1, cosb), coslam)
          [] S.Q.mode = EQUIT -> ONE + Mul(cosb, coslam)
          [] S.Q.mode = N_POLE -> M_HALFPI + phi
          [] S.Q.mode = S_POLE -> phi - M_HALFPI)

\* lines 40-44
laea_e_forward_xi(S, phi, coslam, sinlam, sinxi, cosxi) ==
    laea_e_forward_b(S, phi, coslam, sinlam,
                     IF Planar(S.Q.mode) THEN sinxi ELSE 0,
                     IF Planar(S.Q.mode) THEN cosxi ELSE 0,
                     Mul(sinxi, S.Q.qp))

\* lines 38-39
laea_e_forward_lat(S, phi, coslam, sinlam, xi) ==
    laea_e_forward_xi(S, phi, coslam, sinlam, sin(xi), cos(xi))

\* lines 29-90
laea_e_forward(lp, S) ==
    laea_e_forward_lat(S, lp[2], cos(lp[1]), sin(lp[1]),
                       pj_authalic_lat(lp[2], sin(lp[2]), cos(lp[2]), S.apa.c,
                                       S.P.es, S.Q.qp))

\* lines 111-116, y = sqrt(2. / xy.y)
laea_s_forward_oblcon2(S, lam, sinphi, cosphi, coslam, y) ==
    Ret(<<Mul(Mul(y, cosphi), sin(lam)),
          Mul(y, IF S.Q.mode = EQUIT THEN sinphi
                 ELSE Mul(S.Q.cosb1, sinphi)
                      - Mul(Mul(S.Q.sinb1, cosphi), coslam))>>,
        FALSE, FALSE, S)

\* lines 106-116, y = xy.y of line 102 or 105
laea_s_forward_oblcon(S, lam, sinphi, cosphi, coslam, y) ==
    IF y <= EPS10 THEN Ret(<<0, y>>, TRUE, FALSE, Fail(S))
    ELSE laea_s_forward_oblcon2(S, lam, sinphi, cosphi, coslam,
                                sqrt(Div(2 * ONE, y)))

\* lines 126-128, y = 2. * (cos or sin of line 125's xy.y)
laea_s_forward_polar2(lam, coslam, y, S) ==
    Ret(<<Mul(y, sin(lam)), Mul(y, coslam)>>, FALSE, FALSE, S)

\* a polar branch without the guard of line 121
laea_s_forward_polar_NoGuard(S, lam, phi, coslam) ==
    laea_s_forward_polar2(
        lam, coslam,
        2 * (IF S.Q.mode = S_POLE THEN cos(M_FORTPI - Mul(phi, ONE \div 2))
             ELSE sin(M_FORTPI - Mul(phi, ONE \div 2))),
        S)

\* lines 117-129, coslam negated for N_POLE
laea_s_forward_polar(S, lam, phi, coslam) ==
    IF fabs(phi + S.P.phi0) < EPS10 THEN Ret(<<0, 0>>, TRUE, FALSE, Fail(S))
    ELSE laea_s_forward_polar2(
             lam, coslam,
             2 * (IF S.Q.mode = S_POLE THEN cos(M_FORTPI - Mul(phi, ONE \div 2))
                  ELSE sin(M_FORTPI - Mul(phi, ONE \div 2))),
             S)

\* lines 100-130
laea_s_forward_switch(S, lam, phi, sinphi, cosphi, coslam) ==
    IF S.Q.mode = EQUIT
    THEN laea_s_forward_oblcon(S, lam, sinphi, cosphi, coslam,
                               ONE + Mul(cosphi, coslam))
    ELSE IF S.Q.mode = OBLIQ
    THEN laea_s_forward_oblcon(S, lam, sinphi, cosphi, coslam,
                               ONE + Mul(S.Q.sinb1, sinphi)
                               + Mul(Mul(S.Q.cosb1, cosphi), coslam))
    ELSE laea_s_forward_polar(S, lam, phi,
                              IF S.Q.mode = N_POLE THEN -coslam ELSE coslam)

\* a forward transform that clears the error code on entry
laea_s_forward_ClearsErrno(lp, S) ==
    laea_s_forward_switch([S EXCEPT !.errno = NoError], lp[1], lp[2],
                          sin(lp[2]), cos(lp[2]), cos(lp[1]))

\* lines 92-132
laea_s_forward(lp, S) ==
    laea_s_forward_switch(S, lp[1], lp[2], sin(lp[2]), cos(lp[2]), cos(lp[1]))

\* lines 183-185
laea_e_inverse_out(S, x, y, ab) ==
    Ret(<<atan2(x, y),
          pj_authalic_lat_inverse(asin(ab), S.apa.c, S.P.es, S.Q.qp)>>,
        FALSE, IsNaNAsin(ab), S)

\* lines 158-165, cCe and sCe of lines 156-157
laea_e_inverse_ab(S, x, y, rho, cCe, sCe) ==
    IF S.Q.mode = OBLIQ
    THEN laea_e_inverse_out(
             S, Mul(x, sCe),
             Mul(Mul(rho, S.Q.cosb1), cCe) - Mul(Mul(y, S.Q.sinb1), sCe),
             Mul(cCe, S.Q.sinb1) + Div(Mul(Mul(y, sCe), S.Q.cosb1), rho))
    ELSE laea_e_inverse_out(S, Mul(x, sCe), Mul(rho, cCe),
                            Div(Mul(y, sCe), rho))

\* lines 155-157, sCe = 2. * asin(asin_argument)
laea_e_inverse_sCe(S, x, y, rho, sCe) ==
    laea_e_inverse_ab(S, x, y, rho, cos(sCe), sin(sCe))

\* lines 150-155
laea_e_inverse_arg(S, x, y, rho, asin_argument) ==
    IF asin_argument > ONE THEN Ret(<<0, 0>>, TRUE, FALSE, Fail(S))
    ELSE laea_e_inverse_sCe(S, x, y, rho, 2 * asin(asin_argument))

\* a degenerate branch that returns latitude 0, as line 205 does
laea_e_inverse_rho_ZeroLat(S, x, y, rho) ==
    IF rho < EPS10 THEN Ret(<<0, 0>>, FALSE, FALSE, S)
    ELSE laea_e_inverse_arg(S, x, y, rho, Div(Mul(ONE \div 2, rho), S.Q.rq))

\* lines 144-150, x and y descaled
laea_e_inverse_rho(S, x, y, rho) ==
    IF rho < EPS10 THEN Ret(<<0, S.P.phi0>>, FALSE, FALSE, S)
    ELSE laea_e_inverse_arg(S, x, y, rho, Div(Mul(ONE \div 2, rho), S.Q.rq))

\* lines 142-144
laea_e_inverse_planar(S, x, y) == laea_e_inverse_rho(S, x, y, hypot(x, y))

\* lines 172-181, y negated for N_POLE.  q == 0.0 holds of doubles only for
\* x = y = 0 (underflow apart), whatever the rounding of q
laea_e_inverse_polar(S, x, y, q) ==
    IF x * x + y * y = 0 THEN Ret(<<0, S.P.phi0>>, FALSE, FALSE, S)
    ELSE laea_e_inverse_out(S, x, y,
                            IF S.Q.mode = S_POLE THEN -(ONE - Div(q, S.Q.qp))
                            ELSE ONE - Div(q, S.Q.qp))

\* lines 168-172
laea_e_inverse_pole(S, x, y) ==
    laea_e_inverse_polar(S, x, y, Mul(x, x) + Mul(y, y))

\* lines 134-186
laea_e_inverse(xy, S) ==
    IF Planar(S.Q.mode)
    THEN laea_e_inverse_planar(S, Div(xy[1], S.Q.dd), Mul(xy[2], S.Q.dd))
    ELSE laea_e_inverse_pole(S, xy[1],
                             IF S.Q.mode = N_POLE THEN -xy[2] ELSE xy[2])

\* lines 224-228.  xy.y == 0.: a product of doubles is zero only if a factor
\* is (underflow apart), and the cosine of a double never is; the difference
\* of line 214 can cancel exactly
laea_s_inverse_lam(S, rh, x, y, phi, nan) ==
    Ret(<<IF Planar(S.Q.mode)
             /\ (IF S.Q.mode = EQUIT THEN rh = 0 ELSE y = 0)
          THEN 0
          ELSE atan2(x, y),
          phi>>,
        FALSE, nan, S)

\* lines 213-214
laea_s_inverse_obliq(S, xy, rh, sinz, cosz, phi, nan) ==
    laea_s_inverse_lam(S, rh, Mul(xy[1], Mul(sinz, S.Q.cosb1)),
                       Mul(cosz - Mul(sin(phi), S.Q.sinb1), rh), phi, nan)

\* lines 210-212, the argument of asin
laea_s_inverse_obliq_arg(S, xy, rh, sinz, cosz, arg) ==
    laea_s_inverse_obliq(S, xy, rh, sinz, cosz, asin(arg), IsNaNAsin(arg))

\* line 205, the argument of asin
laea_s_inverse_equit_arg(S, xy, rh, sinz, cosz, arg) ==
    laea_s_inverse_lam(S, rh, Mul(xy[1], sinz), Mul(cosz, rh), asin(arg),
                       IsNaNAsin(arg))

\* lines 203-223, phi = lp.phi of line 198
laea_s_inverse_switch(S, xy, rh, phi, sinz, cosz) ==
    IF S.Q.mode = EQUIT
    THEN (IF fabs(rh) <= EPS10
          THEN laea_s_inverse_lam(S, rh, Mul(xy[1], sinz), Mul(cosz, rh), 0,
                                  FALSE)
          ELSE laea_s_inverse_equit_arg(S, xy, rh, sinz, cosz,
                                        Div(Mul(xy[2], sinz), rh)))
    ELSE IF S.Q.mode = OBLIQ
    THEN (IF fabs(rh) <= EPS10
          THEN laea_s_inverse_obliq(S, xy, rh, sinz, cosz, S.P.phi0, FALSE)
          ELSE laea_s_inverse_obliq_arg(
                   S, xy, rh, sinz, cosz,
                   Mul(cosz, S.Q.sinb1)
                   + Div(Mul(Mul(xy[2], sinz), S.Q.cosb1), rh)))
    ELSE IF S.Q.mode = N_POLE
    THEN laea_s_inverse_lam(S, rh, xy[1], -xy[2], M_HALFPI - phi, FALSE)
    ELSE laea_s_inverse_lam(S, rh, xy[1], xy[2], phi - M_HALFPI, FALSE)

\* lines 198-202
laea_s_inverse_z(S, xy, rh, phi) ==
    laea_s_inverse_switch(S, xy, rh, phi,
                          IF Planar(S.Q.mode) THEN sin(phi) ELSE 0,
                          IF Planar(S.Q.mode) THEN cos(phi) ELSE 0)

\* lines 194-198, phi = rh * .5
laea_s_inverse_guard(S, xy, rh, phi) ==
    IF phi > ONE THEN Ret(<<0, phi>>, TRUE, FALSE, Fail(S))
    ELSE laea_s_inverse_z(S, xy, rh, 2 * asin(phi))

\* line 193
laea_s_inverse_rh(S, xy, rh) ==
    laea_s_inverse_guard(S, xy, rh, Mul(rh, ONE \div 2))

\* lines 188-229
laea_s_inverse(xy, S) == laea_s_inverse_rh(S, xy, hypot(xy[1], xy[2]))

(***************************************************************************)
(* Inputs                                                                  *)
(***************************************************************************)
LamDiv == 2
PhiDiv == 3

\* 100 degrees
Deg100 == (10 * M_HALFPI) \div 9

Phi0Set ==
    LET pos == {0, EPS10 - 1, EPS10, M_FORTPI, ONE, M_HALFPI - EPS10,
                M_HALFPI - EPS10 + 1, M_HALFPI, M_HALFPI + EPS10 - 1,
                M_HALFPI + EPS10, M_HALFPI + EPS10 + 1, Deg100}
    IN  pos \cup {-p : p \in pos}

\* the sphere and two ellipsoids (es, n)
Ellipsoids == {[es |-> 0, n |-> 0], [es |-> 67, n |-> 17], [es |-> 200, n |-> 50]}

LamSet == {(k * M_PI) \div LamDiv : k \in -LamDiv..LamDiv}

NearZero == {-EPS10, 1 - EPS10, 0, EPS10 - 1, EPS10}

\* the latitude grid and the latitudes about the antipode of the centre
PhiSet(phi0) ==
    {(k * M_HALFPI) \div PhiDiv : k \in -PhiDiv..PhiDiv}
    \cup {d - phi0 : d \in NearZero}

XYSet ==
    {<<0, 0>>, <<EPS10 - 1, 0>>, <<0, EPS10 + 1>>, <<ONE, ONE>>,
     <<-ONE, ONE \div 2>>, <<3 * ONE, 0>>, <<0, -(2 * ONE + ONE \div 2)>>,
     <<2 * ONE, 2 * ONE>>}

(***************************************************************************)
(* Actions                                                                 *)
(***************************************************************************)
Commit(S) ==
    /\ P' = S.P
    /\ Q' = S.Q
    /\ apa' = S.apa
    /\ errno' = S.errno
    /\ apaAllocs' = S.allocs
    /\ apaFrees' = S.frees
    /\ fault' = S.fault

Init ==
    /\ P = [mem |-> "live", phi0 |-> 0, es |-> 0, n |-> 0, e |-> 0,
            opaque |-> "null", destructor |-> "pj_default_destructor",
            fwd |-> "none", inv |-> "none"]
    /\ Q = [ZeroQ EXCEPT !.mem = "none"]
    /\ apa = [mem |-> "none", c |-> <<0>>]
    /\ errno = NoError
    /\ handle = "P"
    /\ apaAllocs = 0
    /\ apaFrees = 0
    /\ fault = FALSE
    /\ call = NoCall
    /\ torn = "no"

\* the caller has filled in phi0, es and n, and calls PJ_PROJECTION(laea)
Setup(phi0, ell, callocOK, coeffsOK) ==
    /\ handle = "P"
    /\ P.opaque = "null"
    /\ torn = "no"
    /\ LET S0 == [St EXCEPT !.P = [@ EXCEPT !.phi0 = phi0, !.es = ell.es,
                                            !.n = ell.n]]
           r == PJ_PROJECTION_laea(S0, callocOK, coeffsOK)
       IN  /\ Commit(r.S)
           /\ handle' = r.ret
    /\ UNCHANGED <<call, torn>>

Ready == handle = "P" /\ P.mem = "live" /\ P.fwd # "none"

\* P->fwd(lp, P)
Forward(lp) ==
    /\ Ready
    /\ call.op = "none"
    /\ LET r == IF P.fwd = "laea_e_forward" THEN laea_e_forward(lp, St)
                ELSE laea_s_forward(lp, St)
       IN  /\ Commit(r.S)
           /\ call' = [op |-> "fwd", model |-> P.fwd, in |-> lp, out |-> r.out,
                       err |-> r.err, nan |-> r.nan, rt |-> FALSE,
                       src |-> <<0, 0>>]
    /\ UNCHANGED <<handle, torn>>

\* P->inv(xy, P), on a pair of the caller's or on the pair forward returned
Inverse(xy, rt) ==
    /\ Ready
    /\ IF rt THEN call.op = "fwd" /\ ~call.err /\ xy = call.out
       ELSE call.op = "none"
    /\ LET r == IF P.inv = "laea_e_inverse" THEN laea_e_inverse(xy, St)
                ELSE laea_s_inverse(xy, St)
       IN  /\ Commit(r.S)
           /\ call' = [op |-> "inv", model |-> P.inv, in |-> xy, out |-> r.out,
                       err |-> r.err, nan |-> r.nan, rt |-> rt,
                       src |-> IF rt THEN call.in ELSE <<0, 0>>]
    /\ UNCHANGED <<handle, torn>>

\* the caller takes the returned pair
Return ==
    /\ call.op # "none"
    /\ call' = NoCall
    /\ UNCHANGED <<P, Q, apa, errno, handle, apaAllocs, apaFrees, fault, torn>>

\* pj_laea_destructor(P, 0) on the pointer the caller holds
Teardown ==
    /\ torn # "null instance"
    /\ Commit(pj_laea_destructor(St, handle, NoError))
    /\ handle' = "null"
    /\ call' = NoCall
    /\ torn' = IF handle = "null" THEN "null instance"
               ELSE IF P.opaque = "null" THEN "null state"
               ELSE IF Q.apa = "null" THEN "null apa"
               ELSE "apa"

Next ==
    \/ \E phi0 \in Phi0Set, ell \in Ellipsoids, callocOK \in BOOLEAN,
          coeffsOK \in BOOLEAN : Setup(phi0, ell, callocOK, coeffsOK)
    \/ \E lam \in LamSet, phi \in PhiSet(P.phi0) : Forward(<<lam, phi>>)
    \/ \E xy \in XYSet : Inverse(xy, FALSE)
    \/ Inverse(call.out, TRUE)
    \/ Return
    \/ Teardown

Spec == Init /\ [][Next]_vars

(***************************************************************************)
(* Properties                                                              *)
(***************************************************************************)
OPD == PROJ_ERR_COORD_TRANSFM_OUTSIDE_PROJECTION_DOMAIN

IsForward == call.op = "fwd"

IsInverse == call.op = "inv"

Ellipsoidal == P.es # 0

Polar == Q.mode = N_POLE \/ Q.mode = S_POLE

\* C1. Setup rejection: once setup has allocated the state, a centre latitude
\* with |phi0| > 90 degrees + epsilon makes it fail with the illegal-argument
\* error, return no instance, bind no transform and release what it built;
\* any other centre latitude never yields that error.
C1_SetupRejection ==
    P.opaque # "null" =>
        IF fabs(P.phi0) > M_HALFPI + EPS10
        THEN /\ handle = "null"
             /\ errno = PROJ_ERR_INVALID_OP_ILLEGAL_ARG_VALUE
             /\ P.fwd = "none" /\ P.inv = "none"
             /\ P.mem = "freed" /\ Q.mem = "freed"
             /\ apaAllocs = apaFrees
             /\ ~fault
        ELSE errno # PROJ_ERR_INVALID_OP_ILLEGAL_ARG_VALUE

\* setup was called with phi0 = 100 degrees and rejected it
C1_Witness ==
    /\ P.opaque # "null" /\ P.phi0 = Deg100
    /\ handle = "null" /\ errno = PROJ_ERR_INVALID_OP_ILLEGAL_ARG_VALUE
    /\ Q.mem = "freed"

NearPole == fabs(fabs(P.phi0) - M_HALFPI) < EPS10

\* C2. Mode classification: after a successful setup the mode follows from
\* phi0 alone, whatever es and n: North-Polar within epsilon of 90 degrees
\* with phi0 >= 0, South-Polar there with phi0 < 0, Equatorial for
\* |phi0| < epsilon, Oblique otherwise; 90, -90, 0 and 45 degrees give
\* North-Polar, South-Polar, Equatorial and Oblique.
C2_ModeClassification ==
    P.fwd # "none" =>
        /\ NearPole /\ P.phi0 >= 0 => Q.mode = N_POLE
        /\ NearPole /\ P.phi0 < 0 => Q.mode = S_POLE
        /\ fabs(P.phi0) < EPS10 => Q.mode = EQUIT
        /\ ~NearPole /\ ~(fabs(P.phi0) < EPS10) => Q.mode = OBLIQ
        /\ P.phi0 = M_HALFPI => Q.mode = N_POLE
        /\ P.phi0 = -M_HALFPI => Q.mode = S_POLE
        /\ P.phi0 = 0 => Q.mode = EQUIT
        /\ P.phi0 = M_FORTPI => Q.mode = OBLIQ

\* an ellipsoidal instance centred one unit inside the polar band
C2_Witness ==
    /\ P.fwd # "none" /\ Ellipsoidal
    /\ P.phi0 = -(M_HALFPI - EPS10 + 1) /\ Q.mode = S_POLE

Antipodal ==
    /\ call.in[2] = -P.phi0
    /\ Polar \/ fabs(call.in[1]) = M_PI

\* C3. Antipodal rejection: in every mode and for both models, forward on the
\* point antipodal to the centre (latitude -phi0; longitude offset 180
\* degrees in the Equatorial and Oblique modes, any in the polar ones) fails
\* with Outside Projection Domain, and the spherical polar forward fails
\* whenever |lat + phi0| < epsilon.
C3_AntipodalRejection ==
    IsForward =>
        /\ Antipodal => call.err /\ errno = OPD
        /\ call.model = "laea_s_forward" /\ Polar
           /\ fabs(call.in[2] + P.phi0) < EPS10 => call.err /\ errno = OPD

\* the ellipsoidal Oblique forward was called on the antipode of its centre
C3_Witness ==
    /\ IsForward /\ call.model = "laea_e_forward" /\ Q.mode = OBLIQ
    /\ P.phi0 = M_FORTPI /\ call.in = <<M_PI, -M_FORTPI>> /\ call.err

\* C4. Zero result on domain failure: every transform call that signals
\* Outside Projection Domain sets the error code and returns the zero pair.
C4_ZeroPairOnFailure ==
    call.err => errno = OPD /\ call.out = <<0, 0>>

\* C5. Inverse domain guard precedes NaN: no inverse call returns the arcsine
\* of an argument outside [-1, 1] without having set the error code.
C5_GuardPrecedesNaN ==
    IsInverse /\ call.nan => call.err /\ errno = OPD

\* C6. Coefficient-sequence lifecycle: along every path through setup and
\* teardown apa is allocated at most once, is never released more often than
\* allocated, is released exactly once when the instance is gone, and no
\* destructor call, whether on a null instance, a null state or a null apa,
\* touches a block that is not live.
C6_ApaLifecycle ==
    /\ apaAllocs <= 1
    /\ apaFrees <= apaAllocs
    /\ handle = "null" => apaFrees = apaAllocs
    /\ apa.mem = "freed" <=> apaFrees = 1
    /\ apa.mem = "live" <=> apaAllocs = 1 /\ apaFrees = 0
    /\ ~fault

\* an ellipsoidal instance was set up and torn down
C6_Witness ==
    /\ torn = "apa" /\ handle = "null"
    /\ apaAllocs = 1 /\ apaFrees = 1 /\ apa.mem = "freed"

DegenerateInverse ==
    IsInverse /\ call.in = <<0, 0>> /\ ~Polar

\* C7, as the code has it. Degenerate inverse: in the Equatorial and Oblique
\* modes inverse(0, 0) returns longitude 0 and does not set the error code;
\* the latitude is phi0, except that the spherical Equatorial inverse returns
\* latitude 0 (phi0 itself is within epsilon of 0 there).
C7_DegenerateInverse ==
    DegenerateInverse =>
        /\ ~call.err /\ ~call.nan
        /\ call.out[1] = 0
        /\ call.out[2] = IF ~Ellipsoidal /\ Q.mode = EQUIT THEN 0 ELSE P.phi0

\* the spherical Equatorial inverse returned latitude 0 for a centre off 0
C7_Witness ==
    /\ DegenerateInverse /\ ~Ellipsoidal /\ Q.mode = EQUIT
    /\ P.phi0 = EPS10 - 1 /\ call.out = <<0, 0>> /\ ~call.err

\* C7, as the specification has it: in the Equatorial and Oblique modes, for
\* either model, inverse(0, 0) returns exactly (0, phi0) and does not set the
\* error code.
C7_Original ==
    DegenerateInverse => ~call.err /\ call.out = <<0, P.phi0>>

\* the tolerance of the round trip, 1e-9
RoundTripTol == 10 * EPS10

RoundTrip == IsInverse /\ call.rt

\* the point is off the poles and the date line, and its image lies more than
\* a tenth of the sphere's radius inside the antipodal circle
OrdinaryPoint ==
    /\ fabs(call.src[2]) < M_HALFPI
    /\ fabs(call.src[1]) < M_PI
    /\ hypot(call.in[1], call.in[2]) < 2 * ONE - ONE \div 10

\* C8, on the spherical Oblique instances centred off the poles and at the
\* points away from every singularity. Round trip: where forward does not
\* signal a domain failure, inverse(forward(lon, lat)) is within 1e-9 of
\* (lon, lat) and inverse signals none.
C8_RoundTrip ==
    RoundTrip /\ ~Ellipsoidal /\ Q.mode = OBLIQ /\ fabs(P.phi0) < M_HALFPI
    /\ OrdinaryPoint =>
        /\ ~call.err /\ ~call.nan
        /\ fabs(call.out[1] - call.src[1]) <= RoundTripTol
        /\ fabs(call.out[2] - call.src[2]) <= RoundTripTol

PolarEllipsoidalForward ==
    IsForward /\ call.model = "laea_e_forward" /\ Polar

\* b of lines 54 and 58
C9_b ==
    IF Q.mode = N_POLE THEN M_HALFPI + call.in[2] ELSE call.in[2] - M_HALFPI

\* q of lines 45, 55 and 59
C9_q ==
    IF Q.mode = N_POLE
    THEN Q.qp - Mul(sin(pj_authalic_lat(call.in[2], sin(call.in[2]),
                                        cos(call.in[2]), apa.c, P.es, Q.qp)),
                    Q.qp)
    ELSE Q.qp + Mul(sin(pj_authalic_lat(call.in[2], sin(call.in[2]),
                                        cos(call.in[2]), apa.c, P.es, Q.qp)),
                    Q.qp)

\* C9, as the code has it. The |b| < epsilon guard of the ellipsoidal forward
\* applies in all four modes: in the polar modes, with b = 90 degrees + lat
\* (North) or lat - 90 degrees (South), the call signals Outside Projection
\* Domain exactly when |b| < epsilon, that is at the antipodal pole, and
\* otherwise returns (b sin(lam), +-b cos(lam)) with b = sqrt(q) when
\* q >= 1e-15 and (0, 0) when not.
C9_PolarGuard ==
    PolarEllipsoidalForward =>
        /\ call.err <=> fabs(C9_b) < EPS10
        /\ call.err => errno = OPD
        /\ ~call.err =>
              call.out = IF C9_q >= Q_MIN
                         THEN <<Mul(sqrt(C9_q), sin(call.in[1])),
                                Mul(cos(call.in[1]),
                                    IF Q.mode = S_POLE THEN sqrt(C9_q)
                                    ELSE -sqrt(C9_q))>>
                         ELSE <<0, 0>>

\* the South-Polar ellipsoidal forward failed at the north pole
C9_Witness ==
    /\ PolarEllipsoidalForward /\ Q.mode = S_POLE
    /\ call.in[2] = M_HALFPI /\ call.err /\ errno = OPD

\* C9, as the specification has it: in the polar modes the ellipsoidal forward
\* never signals Outside Projection Domain.
C9_Original ==
    PolarEllipsoidalForward => ~call.err

\* C10. Frame of a transform call: a forward or inverse call leaves the
\* instance, the projection state (mode, sinb1, cosb1, xmf, ymf, mmf, dd, qp,
\* rq, apa), the coefficients and the bound transforms as setup left them; a
\* call without a domain failure leaves the error code as it was, and a call
\* with one changes the error code only.
C10_Frame ==
    [][call'.op # "none" /\ call' # call =>
          /\ P' = P /\ Q' = Q /\ apa' = apa
          /\ apaAllocs' = apaAllocs /\ apaFrees' = apaFrees
          /\ fault' = fault /\ handle' = handle
          /\ IF call'.err THEN errno' = OPD ELSE errno' = errno]_vars

\* a round trip succeeded on an instance whose error code an earlier call set
C10_Witness ==
    /\ RoundTrip /\ ~call.err /\ errno = OPD
    /\ P.mem = "live" /\ P.fwd # "none" /\ Q.mem = "live"

====
